---- MODULE Spec2Model ----
(***************************************************************************)
(* Model of the card-tagging pipeline of cedh-magda-analysis:              *)
(*   3_deck_preprocessing.py       preprocess_decklists  (the normalizer)  *)
(*   4_basic_decklist_analytics.py analyze_card_usage    (usage tagger)    *)
(*   5_winrate_based_analytics.py  main, create_spice_tags (power tagger)  *)
(* Text is modelled as it is handled by the code: a string is a sequence   *)
(* of one-character strings, so strip, split, join, isdigit, startswith    *)
(* and the regular expressions are computed, not assumed.                  *)
(***************************************************************************)
EXTENDS Integers, Sequences, FiniteSets, TLC

VARIABLES
    \* ---- 3_deck_preprocessing.py: one deck file being normalized ----
    file_len,         \* number of lines of the deck export (deck_text.splitlines())
    line_no,          \* number of lines the for loop has consumed
    last_line,        \* the line consumed last, as it was composed (count, name, meta)
    processed_cards,  \* the list processed_cards
    card_counts,      \* the dict card_counts (name -> copies numbered so far)
    npc,              \* position: "loop", "stopped" (after break), "written"
    output_file,      \* the normalized file written for this deck
    seen_marker,      \* history: a sideboard/stickers line has been consumed
    maindeck          \* history: (name, count) of the counted card lines before it

normVars == <<file_len, line_no, last_line, processed_cards, card_counts, npc,
              output_file, seen_marker, maindeck>>

VARIABLES
    \* ---- 4_basic_decklist_analytics.py: the counting passes of analyze_card_usage ----
    total_decks,      \* len(deck_files)
    deck_no,          \* number of deck files the first pass has consumed
    usage_counts,     \* the Counter card_counts (base card -> decks containing it)
    decks_read,       \* history: the card lists of the deck files consumed so far
    quantity_no,      \* number of deck files the second pass has consumed
    card_quantities,  \* the dict card_quantities (base card -> most copies in one deck)
    tagged_cards,     \* the entries of tagged_cards: card, quantity, count, tag
    upc               \* position: "counting" (the two passes), "tagged"

usageVars == <<total_decks, deck_no, usage_counts, decks_read, quantity_no,
               card_quantities, tagged_cards, upc>>

VARIABLES
    \* ---- stages 4 and 5 run against the tag file tagged_cards.txt ----
    scenario,         \* history: how the inputs were set up
    processed_dir,    \* processed_decklists: whether it exists, its files as listed
    scrape_csv,       \* edh16_scrape.csv: its columns and rows
    tag_file,         \* tagged_cards.txt
    start_file,       \* history: tag_file as it was before the first run
    new_file,         \* tagged_cards.txt.new, its lines as a set
    pc,               \* "idle", where the running stage stands in its write, "aborted"
    pending,          \* the lines the running stage is writing
    run_tags,         \* spice_tags and additional_tags of the last create_spice_tags
    runs,             \* number of stage runs started
    last_run,         \* history: kind, outcome and prior tag file of the last run
    prev_run          \* history: kind and outcome of the run before it

tagVars == <<scenario, processed_dir, scrape_csv, tag_file, start_file, new_file, pc, pending,
             run_tags, runs, last_run, prev_run>>

VARIABLES
    \* ---- 5_winrate_based_analytics.py: main, the power aggregation ----
    has_draws,        \* draw_col: whether the table has a draws column
    total_rows,       \* len(df)
    row_no,           \* number of rows the for loop has consumed
    cur_row,          \* the row consumed last, with its win_rate and power_weight
    card_dict,        \* the dict card_dict (card line -> appearance_count, power_law_sum)
    processed_decks,  \* the counter processed_decks
    decks_done,       \* history: card list and weight of the decks aggregated so far
    card_table,       \* the DataFrame card_df with average_power
    ppc               \* position: "loop", "built", "returned" (line 449), "tagged"

powerVars == <<has_draws, total_rows, row_no, cur_row, card_dict, processed_decks,
               decks_done, card_table, ppc>>

VARIABLES
    \* ---- run_all.py: the loop over the five scripts ----
    run_all_pc,       \* "off" (not used), "ready", "looping", "done", "raised"
    script_no,        \* index in scripts of the script started last, 0 before the first
    running,          \* the scripts whose process is running
    exits,            \* history: the return codes of the scripts that exited, in order
    runs_at_start,    \* history: the value of runs when the running script started
    passes,           \* history: number of times run_all was started
    first_pass_file   \* history: the tag file as the first completed pass left it

runVars == <<run_all_pc, script_no, running, exits, runs_at_start, passes, first_pass_file>>

vars == <<normVars, usageVars, tagVars, powerVars, runVars>>

\* a text file: whether it exists, and its lines
NoFile == [exists |-> FALSE, lines |-> <<>>]

File(lines) == [exists |-> TRUE, lines |-> lines]

\* the fallback file, whose lines are written in no particular order
NoNewFile == [exists |-> FALSE, lines |-> {}]

(***************************************************************************)
(* Bounds of the model.                                                    *)
(***************************************************************************)
MaxLines == 3     \* lines of one raw deck export
MaxCount == 2     \* largest leading count on a card line
MaxDecks == 3     \* deck files the counting pass of the usage tagger reads
MaxEntries == 2   \* decks of the corpus the tag-file stages run on
MaxRuns == 2      \* stage runs against the tag file
MaxTotalDecks == 100  \* deck files of the corpus whose card counts are tagged
MaxGames == 4     \* wins, losses and draws of one row whose weight is computed
MaxRows == 2      \* rows of the table the power aggregation loops over
MaxPasses == 2    \* times run_all is started, one after the other

(***************************************************************************)
(* Characters and strings.                                                 *)
(***************************************************************************)
Digits == <<"0", "1", "2", "3", "4", "5", "6", "7", "8", "9">>

IsDigit(c) == \E i \in 1..10 : Digits[i] = c

IsSpace(c) == c = " "

DigitVal(c) == (CHOOSE i \in 1..10 : Digits[i] = c) - 1

\* str.upper() on the letters the model uses
Upper(c) ==
    CASE c = "a" -> "A" [] c = "b" -> "B" [] c = "c" -> "C" [] c = "d" -> "D"
      [] c = "e" -> "E" [] c = "i" -> "I" [] c = "k" -> "K" [] c = "m" -> "M"
      [] c = "n" -> "N" [] c = "o" -> "O" [] c = "r" -> "R" [] c = "s" -> "S"
      [] c = "t" -> "T"
      [] OTHER -> c

UpperStr(s) == [i \in 1..Len(s) |-> Upper(s[i])]

Drop(s, n) == SubSeq(s, n + 1, Len(s))

Take(s, n) == SubSeq(s, 1, n)

\* str.startswith
StartsWith(s, p) == Len(s) >= Len(p) /\ Take(s, Len(p)) = p

\* length of the longest prefix of s whose characters all satisfy the test
LeadingSpaces(s) ==
    IF \E i \in 1..Len(s) : ~IsSpace(s[i])
    THEN (CHOOSE i \in 1..Len(s) : ~IsSpace(s[i]) /\ \A j \in 1..(i - 1) : IsSpace(s[j])) - 1
    ELSE Len(s)

LeadingDigits(s) ==
    IF \E i \in 1..Len(s) : ~IsDigit(s[i])
    THEN (CHOOSE i \in 1..Len(s) : ~IsDigit(s[i]) /\ \A j \in 1..(i - 1) : IsDigit(s[j])) - 1
    ELSE Len(s)

TrailingSpaces(s) ==
    IF \E i \in 1..Len(s) : ~IsSpace(s[i])
    THEN Len(s) - (CHOOSE i \in 1..Len(s) : ~IsSpace(s[i]) /\ \A j \in (i + 1)..Len(s) : IsSpace(s[j]))
    ELSE Len(s)

TrailingDigits(s) ==
    IF \E i \in 1..Len(s) : ~IsDigit(s[i])
    THEN Len(s) - (CHOOSE i \in 1..Len(s) : ~IsDigit(s[i]) /\ \A j \in (i + 1)..Len(s) : IsDigit(s[j]))
    ELSE Len(s)

\* str.strip()
Strip(s) ==
    IF LeadingSpaces(s) = Len(s) THEN <<>>
    ELSE SubSeq(s, LeadingSpaces(s) + 1, Len(s) - TrailingSpaces(s))

\* str.isdigit()
IsDigitStr(s) == Len(s) > 0 /\ \A i \in 1..Len(s) : IsDigit(s[i])

\* int(s) for a string of digits
RECURSIVE StrToInt(_)
StrToInt(s) ==
    IF Len(s) = 0 THEN 0
    ELSE 10 * StrToInt(Take(s, Len(s) - 1)) + DigitVal(s[Len(s)])

\* str(n) for n >= 0, as the f-strings format a count
RECURSIVE IntToStr(_)
IntToStr(n) ==
    IF n < 10 THEN <<Digits[n + 1]>>
    ELSE IntToStr(n \div 10) \o <<Digits[(n % 10) + 1]>>

\* re.search(r'\d+$', s): s ends with a digit
EndsWithDigit(s) == Len(s) > 0 /\ IsDigit(s[Len(s)])


(***************************************************************************)
(* Each specification below runs one part of the pipeline; the variables   *)
(* of the other parts rest at these values.                                *)
(***************************************************************************)
NormIdle ==
    /\ file_len = 0
    /\ line_no = 0
    /\ last_line = [kind |-> "none", count |-> 0, name |-> <<>>, meta |-> <<>>]
    /\ processed_cards = <<>>
    /\ card_counts = <<>>
    /\ npc = "written"
    /\ output_file = NoFile
    /\ seen_marker = FALSE
    /\ maindeck = <<>>

UsageIdle ==
    /\ total_decks = 0
    /\ deck_no = 0
    /\ usage_counts = <<>>
    /\ decks_read = <<>>
    /\ quantity_no = 0
    /\ card_quantities = <<>>
    /\ tagged_cards = {}
    /\ upc = "tagged"

NoRow == [wins |-> 0, losses |-> 0, draws |-> 0, cards |-> <<>>,
          win_rate |-> [n |-> 0, d |-> 1], power_weight |-> [n |-> 0, d |-> 1]]

PowerIdle ==
    /\ has_draws = FALSE
    /\ total_rows = 0
    /\ row_no = 0
    /\ cur_row = NoRow
    /\ card_dict = <<>>
    /\ processed_decks = 0
    /\ decks_done = <<>>
    /\ card_table = <<>>
    /\ ppc = "returned"

RunIdle ==
    /\ run_all_pc = "off"
    /\ script_no = 0
    /\ running = {}
    /\ exits = <<>>
    /\ runs_at_start = 0
    /\ passes = 0
    /\ first_pass_file = [exists |-> FALSE, lines |-> <<>>]

NoTags == [spice |-> <<>>, extra |-> <<>>]

NoRun == [kind |-> "none", outcome |-> "none", before |-> NoFile, tags |-> NoTags]

TagIdle ==
    /\ scenario = "none"
    /\ processed_dir = [exists |-> FALSE, files |-> <<>>]
    /\ scrape_csv = [has_url |-> FALSE, has_draws |-> FALSE, rows |-> <<>>]
    /\ tag_file = NoFile
    /\ start_file = NoFile
    /\ new_file = NoNewFile
    /\ pc = "idle"
    /\ pending = <<>>
    /\ run_tags = NoTags
    /\ runs = 0
    /\ last_run = NoRun
    /\ prev_run = NoRun

(***************************************************************************)
(* 3_deck_preprocessing.py: preprocess_decklists, one deck file.           *)
(***************************************************************************)
Slashes == <<"/", "/">>

Hash == <<"#">>

SIDEBOARD == <<"S", "I", "D", "E", "B", "O", "A", "R", "D">>

STICKERS == <<"S", "T", "I", "C", "K", "E", "R", "S">>

Colon == <<":">>

\* line 46: empty lines and comment lines are skipped
IsSkipped(line) ==
    line = <<>> \/ StartsWith(line, Slashes) \/ StartsWith(line, Hash)

\* lines 50-51: the sideboard or stickers section begins
IsSectionMarker(line) ==
    \/ StartsWith(UpperStr(line), SIDEBOARD \o Colon)
    \/ UpperStr(line) = SIDEBOARD
    \/ StartsWith(UpperStr(line), STICKERS \o Colon)
    \/ UpperStr(line) = STICKERS

\* position of the first "(" of s, or 0
FirstParen(s) ==
    IF \E i \in 1..Len(s) : s[i] = "("
    THEN CHOOSE i \in 1..Len(s) : s[i] = "(" /\ \A j \in 1..(i - 1) : s[j] # "("
    ELSE 0

NoMatch == [ok |-> FALSE, count |-> 0, name |-> <<>>]

\* Mutant of MatchCard: the leading count is optional and defaults to 1.
MatchCardOptionalCount(line) ==
    LET d == LeadingDigits(line)
        w == LeadingSpaces(Drop(line, d))
    IN  IF d = 0 /\ FirstParen(line) = 0 /\ Len(line) > 0
        THEN [ok |-> TRUE, count |-> 1, name |-> Strip(line)]
        ELSE IF d = 0 \/ w = 0 THEN NoMatch
        ELSE [ok |-> TRUE, count |-> StrToInt(Take(line, d)),
              name |-> Strip(IF FirstParen(line) = 0 THEN Drop(line, d)
                             ELSE SubSeq(line, d + 1, FirstParen(line) - 1))]

\* line 57: re.match(r'(\d+)\s+([^(]+)(?:\s+\([^)]+\).*)?$', line) on a stripped
\* line; group 1 is the count, group 2 stripped (line 61) is the card name.
\* Without "(" the name runs to the end of the line.  With one, the text
\* between the count and the first "(" must be whitespace, at least one
\* more character, whitespace; "(" must be followed by a character other
\* than ")" and a ")" must close it.
MatchCard(line) ==
    LET d == LeadingDigits(line)
        w == LeadingSpaces(Drop(line, d))
        p == FirstParen(line)
        seg == SubSeq(line, d + 1, p - 1)
    IN  IF d = 0 \/ w = 0 THEN NoMatch
        ELSE IF p = 0
        THEN [ok |-> TRUE, count |-> StrToInt(Take(line, d)),
              name |-> Strip(Drop(line, d))]
        ELSE IF /\ Len(seg) >= 3
                /\ IsSpace(seg[Len(seg)])
                /\ p + 1 <= Len(line)
                /\ line[p + 1] # ")"
                /\ \E j \in (p + 2)..Len(line) : line[j] = ")"
        THEN [ok |-> TRUE, count |-> StrToInt(Take(line, d)), name |-> Strip(seg)]
        ELSE NoMatch

\* card_counts.get(card_name, 0)
CountOf(counts, name) == IF name \in DOMAIN counts THEN counts[name] ELSE 0

\* Mutant of NumberedNames: every line numbers its copies from 1.
NumberedNamesFromOne(counts, name, count) ==
    IF count > 1 THEN [i \in 1..count |-> name \o IntToStr(i)]
    ELSE [i \in 1..count |-> name]

\* lines 64-75: the names appended for one matched line, in order
NumberedNames(counts, name, count) ==
    IF count > 1
    THEN [i \in 1..count |-> name \o IntToStr(CountOf(counts, name) + i)]
    ELSE [i \in 1..count |-> name]

\* lines 67-68: card_counts after one matched line
CountsAfter(counts, name, count) ==
    IF count > 1
    THEN [k \in DOMAIN counts \cup {name} |->
            IF k = name THEN CountOf(counts, name) + count ELSE counts[k]]
    ELSE counts

\* Mutant of AfterMarker: the marker line is skipped and the loop goes on.
AfterMarkerContinue == "loop"

\* line 53: break
AfterMarker == "stopped"

\* ---- the deck exports the normalizer is run on ----
NameA == <<"a">>

NameB2 == <<"b", " ", "2">>

NormNames == {NameA, NameB2}

NoMeta == <<>>

SetMeta == <<" ", "(", "s", ")", " ", "7">>

Metas == {NoMeta, SetMeta}

\* a card line: count -1 stands for a line without a leading count
CardLines ==
    [kind : {"card"}, count : (-1)..MaxCount, name : NormNames, meta : Metas]

TextLine(k, t) == [kind |-> k, count |-> 0, name |-> t, meta |-> NoMeta]

OtherLines ==
    { TextLine("blank", <<>>),
      TextLine("comment", <<"/", "/", " ", "a">>),
      TextLine("comment", <<"#", "a">>),
      TextLine("header", <<"C", "o", "m", "m", "a", "n", "d", "e", "r">>),
      TextLine("marker", SIDEBOARD),
      TextLine("marker", <<"s", "i", "d", "e", "b", "o", "a", "r", "d", ":", " ", "a">>),
      TextLine("marker", <<"S", "t", "i", "c", "k", "e", "r", "s">>),
      TextLine("marker", <<"S", "T", "I", "C", "K", "E", "R", "S", ":">>) }

LinePool == CardLines \cup OtherLines

\* the text of one line of the export
Render(ls) ==
    IF ls.kind = "card"
    THEN (IF ls.count >= 0 THEN IntToStr(ls.count) \o <<" ">> ELSE <<>>)
         \o ls.name \o ls.meta
    ELSE ls.name

\* lines 42-79 for a whole export: the list processed_cards at the end of the loop
RECURSIVE NormalizeFrom(_, _, _, _)
NormalizeFrom(lines, i, cards, counts) ==
    IF i > Len(lines) THEN cards
    ELSE LET line == Strip(lines[i])
             m == MatchCard(line)
         IN  IF IsSkipped(line) THEN NormalizeFrom(lines, i + 1, cards, counts)
             ELSE IF IsSectionMarker(line) THEN cards
             ELSE IF m.ok
             THEN NormalizeFrom(lines, i + 1,
                                cards \o NumberedNames(counts, m.name, m.count),
                                CountsAfter(counts, m.name, m.count))
             ELSE NormalizeFrom(lines, i + 1, cards, counts)

NormalizeDeck(src) ==
    NormalizeFrom([i \in 1..Len(src) |-> Render(src[i])], 1, <<>>, <<>>)

NoLine == TextLine("none", <<>>)

InitNorm ==
    /\ file_len \in 0..MaxLines
    /\ line_no = 0
    /\ last_line = NoLine
    /\ processed_cards = <<>>
    /\ card_counts = <<>>
    /\ npc = "loop"
    /\ output_file = NoFile
    /\ seen_marker = FALSE
    /\ maindeck = <<>>
    /\ UsageIdle
    /\ TagIdle
    /\ PowerIdle
    /\ RunIdle

\* line 43: the text of the line, stripped
Stripped(ls) == Strip(Render(ls))

InLoop == npc = "loop" /\ line_no < file_len

\* what consuming line ls adds to the history
Consume(ls) ==
    /\ line_no' = line_no + 1
    /\ last_line' = ls
    /\ seen_marker' = (seen_marker \/ ls.kind = "marker")
    /\ maindeck' = IF ls.kind = "card" /\ ls.count >= 1 /\ ~seen_marker
                   THEN Append(maindeck, [name |-> ls.name, count |-> ls.count])
                   ELSE maindeck

\* lines 46-47
SkipLine ==
    /\ InLoop
    /\ \E ls \in LinePool :
        /\ IsSkipped(Stripped(ls))
        /\ Consume(ls)
    /\ UNCHANGED <<file_len, processed_cards, card_counts, npc, output_file>>
    /\ UNCHANGED <<usageVars, tagVars, powerVars, runVars>>

\* lines 50-53
ReachSection ==
    /\ InLoop
    /\ \E ls \in LinePool :
        /\ ~IsSkipped(Stripped(ls))
        /\ IsSectionMarker(Stripped(ls))
        /\ Consume(ls)
    /\ npc' = AfterMarker
    /\ UNCHANGED <<file_len, processed_cards, card_counts, output_file>>
    /\ UNCHANGED <<usageVars, tagVars, powerVars, runVars>>

\* lines 59-75
ParseCard ==
    /\ InLoop
    /\ \E ls \in LinePool :
        /\ ~IsSkipped(Stripped(ls))
        /\ ~IsSectionMarker(Stripped(ls))
        /\ MatchCard(Stripped(ls)).ok
        /\ LET m == MatchCard(Stripped(ls))
           IN  /\ processed_cards' =
                     processed_cards \o NumberedNames(card_counts, m.name, m.count)
               /\ card_counts' = CountsAfter(card_counts, m.name, m.count)
        /\ Consume(ls)
    /\ UNCHANGED <<file_len, npc, output_file>>
    /\ UNCHANGED <<usageVars, tagVars, powerVars, runVars>>

\* lines 76-79: the line is reported (unless it is a header) and skipped
UnparsedLine ==
    /\ InLoop
    /\ \E ls \in LinePool :
        /\ ~IsSkipped(Stripped(ls))
        /\ ~IsSectionMarker(Stripped(ls))
        /\ ~MatchCard(Stripped(ls)).ok
        /\ Consume(ls)
    /\ UNCHANGED <<file_len, processed_cards, card_counts, npc, output_file>>
    /\ UNCHANGED <<usageVars, tagVars, powerVars, runVars>>

\* lines 82-84: one line per processed card
WriteProcessed ==
    /\ \/ npc = "stopped"
       \/ npc = "loop" /\ line_no = file_len
    /\ output_file' = File(processed_cards)
    /\ npc' = "written"
    /\ UNCHANGED <<file_len, line_no, last_line, processed_cards, card_counts,
                   seen_marker, maindeck>>
    /\ UNCHANGED <<usageVars, tagVars, powerVars, runVars>>

NextNorm == SkipLine \/ ReachSection \/ ParseCard \/ UnparsedLine \/ WriteProcessed

SpecNorm == InitNorm /\ [][NextNorm]_vars

(***************************************************************************)
(* Properties of the normalizer (checked under SpecNorm).                  *)
(***************************************************************************)
RECURSIVE SumCounts(_)
SumCounts(lines) ==
    IF lines = <<>> THEN 0
    ELSE lines[Len(lines)].count + SumCounts(Take(lines, Len(lines) - 1))

\* copies of `name` that earlier counted lines with a count above 1 have numbered
RECURSIVE NumberedBefore(_, _)
NumberedBefore(lines, name) ==
    IF lines = <<>> THEN 0
    ELSE NumberedBefore(Take(lines, Len(lines) - 1), name)
         + (IF lines[Len(lines)].name = name /\ lines[Len(lines)].count > 1
            THEN lines[Len(lines)].count ELSE 0)

\* this step consumes a card line of the maindeck that carries a count N >= 1
ConsumesCountedLine ==
    /\ line_no' = line_no + 1
    /\ ~seen_marker
    /\ last_line'.kind = "card"
    /\ last_line'.count >= 1

\* this step consumes a card line of the maindeck that carries no count
ConsumesUncountedLine ==
    /\ line_no' = line_no + 1
    /\ ~seen_marker
    /\ last_line'.kind = "card"
    /\ last_line'.count = -1
    /\ LeadingDigits(Stripped(last_line')) = 0

\* the names name<from+1> .. name<from+n>
Suffixed(name, from, n) == [i \in 1..n |-> name \o IntToStr(from + i)]

\* C6 as stated: a counted maindeck line "N name" appends name (N = 1) or
\* name1..nameN (N > 1), and the file written has as many lines as the sum
\* of the counts.
C6_NumberedFromOne ==
    /\ [][ConsumesCountedLine =>
            processed_cards' = processed_cards \o
                (IF last_line'.count = 1 THEN <<last_line'.name>>
                 ELSE Suffixed(last_line'.name, 0, last_line'.count))]_vars
    /\ [](npc = "written" => Len(output_file.lines) = SumCounts(maindeck))

\* C6 amended: a counted maindeck line "N name" appends exactly N occurrences:
\* name when N = 1, and when N > 1 the names name<k+1>..name<k+N>, k being the
\* number of copies of that name already numbered in this deck (k = 0 on the
\* card's first such line); the file written has as many lines as the sum of
\* the counts.
C6_NumberingContinues ==
    /\ [][ConsumesCountedLine =>
            processed_cards' = processed_cards \o
                (IF last_line'.count = 1 THEN <<last_line'.name>>
                 ELSE Suffixed(last_line'.name,
                               NumberedBefore(maindeck, last_line'.name),
                               last_line'.count))]_vars
    /\ [](npc = "written" => Len(output_file.lines) = SumCounts(maindeck))

\* C6 witness: a deck with two lines of the same card, both with a count
\* above 1, has been written.
C6_Witness ==
    /\ npc = "written"
    /\ \E i, j \in 1..Len(maindeck) :
        /\ i < j
        /\ maindeck[i].name = maindeck[j].name
        /\ maindeck[i].count > 1
        /\ maindeck[j].count > 1
    /\ Len(output_file.lines) = SumCounts(maindeck)

\* C7: once a SIDEBOARD/STICKERS line has been consumed (that line included),
\* no step adds an occurrence to processed_cards.
C7_NothingAfterMarker ==
    [][seen_marker' => processed_cards' = processed_cards]_vars

\* C7 witness: the deck was written after a marker with lines left unread
\* behind it, and the maindeck before it produced occurrences.
C7_Witness ==
    /\ npc = "written"
    /\ seen_marker
    /\ line_no < file_len
    /\ Len(output_file.lines) > 0

\* C8 as stated: a maindeck card line without a leading count appends exactly
\* one occurrence, the bare card name.
C8_UncountedIsOne ==
    [][ConsumesUncountedLine =>
        processed_cards' = Append(processed_cards, last_line'.name)]_vars

\* C8 amended: the leading count is required; a maindeck line that does not
\* begin with digits produces no occurrence (it is skipped as unparseable).
C8_UncountedIsSkipped ==
    [][ConsumesUncountedLine => processed_cards' = processed_cards]_vars

\* C8 witness: a deck whose last consumed maindeck line was a card line with
\* no count has been written, and that line is missing from the output.
C8_Witness ==
    /\ npc = "written"
    /\ ~seen_marker
    /\ last_line.kind = "card"
    /\ last_line.count = -1
    /\ \A i \in 1..Len(output_file.lines) : output_file.lines[i] # last_line.name

\* C9 as stated: every non-blank line of a written normalized deck file ends
\* with a digit.
C9_LinesEndWithDigit ==
    npc = "written" =>
        \A i \in 1..Len(output_file.lines) :
            Strip(output_file.lines[i]) # <<>> => EndsWithDigit(Strip(output_file.lines[i]))

(***************************************************************************)
(* The normalized deck files the later stages read: each is the output of  *)
(* preprocess_decklists on a deck export.                                  *)
(***************************************************************************)
CardA == <<"a">>

CardB == <<"b">>

CardE == <<"e">>

CardCD == <<"c", " ", " ", "d">>

ExportLine(n, name) == [kind |-> "card", count |-> n, name |-> name, meta |-> SetMeta]

DeckAB == NormalizeDeck(<<ExportLine(1, CardA), ExportLine(1, CardB)>>)

DeckAEE == NormalizeDeck(<<ExportLine(1, CardA), ExportLine(2, CardE)>>)

DeckACD == NormalizeDeck(<<ExportLine(1, CardA), ExportLine(1, CardCD)>>)

DeckEEE == NormalizeDeck(<<ExportLine(1, CardE), ExportLine(2, CardE)>>)

DeckBE == NormalizeDeck(<<ExportLine(1, CardB), ExportLine(1, CardE)>>)

\* a deck file as the readers meet it: readable or not, and its lines
Readable(cards) == [ok |-> TRUE, cards |-> cards]

Unreadable == [ok |-> FALSE, cards |-> <<>>]

UsageDeckPool ==
    {Readable(DeckAB), Readable(DeckAEE), Readable(DeckACD), Readable(DeckEEE), Readable(DeckBE)}

(***************************************************************************)
(* 4_basic_decklist_analytics.py: analyze_card_usage, the counting pass.   *)
(***************************************************************************)
\* lines 55, 77: re.sub(r'(\d+)$', '', card)
StripDigits(card) == Take(card, Len(card) - TrailingDigits(card))

\* lines 47, 72: the non-blank lines of the file, stripped
FileCards(lines) ==
    LET kept == {i \in 1..Len(lines) : Strip(lines[i]) # <<>>}
        \* the i-th kept index
        Nth(n) == CHOOSE i \in kept : Cardinality({j \in kept : j <= i}) = n
    IN  [n \in 1..Cardinality(kept) |-> Strip(lines[Nth(n)])]

\* lines 52-56: the set base_cards of one deck
BaseCards(cards) == {StripDigits(cards[i]) : i \in 1..Len(cards)}

\* Mutant of CountDeckInto: every line of the deck counts, not every base card.
CountDeckIntoPerCopy(counts, cards) ==
    [b \in DOMAIN counts \cup BaseCards(cards) |->
        CountOf(counts, b) + Cardinality({i \in 1..Len(cards) : StripDigits(cards[i]) = b})]

\* lines 59-60: each base card of the deck counts once
CountDeckInto(counts, cards) ==
    [b \in DOMAIN counts \cup BaseCards(cards) |->
        CountOf(counts, b) + (IF b \in BaseCards(cards) THEN 1 ELSE 0)]

InitUsage ==
    /\ total_decks \in 1..MaxDecks
    /\ deck_no = 0
    /\ usage_counts = <<>>
    /\ decks_read = <<>>
    /\ quantity_no = 0
    /\ card_quantities = <<>>
    /\ tagged_cards = {}
    /\ upc = "counting"
    /\ NormIdle
    /\ TagIdle
    /\ PowerIdle
    /\ RunIdle

\* lines 40-60: one deck file of the first pass
CountDeck ==
    /\ deck_no < total_decks
    /\ \E deck \in UsageDeckPool :
        /\ usage_counts' = CountDeckInto(usage_counts, FileCards(deck.cards))
        /\ decks_read' = Append(decks_read, deck)
    /\ deck_no' = deck_no + 1
    /\ UNCHANGED <<total_decks, quantity_no, card_quantities, tagged_cards, upc>>
    /\ UNCHANGED <<normVars, tagVars, powerVars, runVars>>

\* lines 62-63: the file cannot be read; it is reported and counts for nothing
CountUnreadable ==
    /\ deck_no < total_decks
    /\ decks_read' = Append(decks_read, Unreadable)
    /\ deck_no' = deck_no + 1
    /\ UNCHANGED <<total_decks, usage_counts, quantity_no, card_quantities, tagged_cards, upc>>
    /\ UNCHANGED <<normVars, tagVars, powerVars, runVars>>

\* copies of base card b in one deck file
CopiesIn(deck, b) ==
    Cardinality({i \in 1..Len(deck.cards) : StripDigits(deck.cards[i]) = b})

\* the deck files read so far that hold at least one copy of base card b
DecksWith(b) == {i \in 1..Len(decks_read) : CopiesIn(decks_read[i], b) >= 1}

\* C10: appearance_count of every base card is the number of decks read that
\* hold at least one copy of it, whatever the number of copies, and never
\* exceeds total_decks; a base card in no deck has no count.
C10_OncePerDeck ==
    /\ \A i \in 1..Len(decks_read) : \A k \in 1..Len(decks_read[i].cards) :
        StripDigits(decks_read[i].cards[k]) \in DOMAIN usage_counts
    /\ \A b \in DOMAIN usage_counts :
        /\ usage_counts[b] = Cardinality(DecksWith(b))
        /\ usage_counts[b] >= 1
        /\ usage_counts[b] <= total_decks

\* C10 witness: the pass is over, and a card that one deck runs in several
\* copies and another in one has been counted once for each of the two decks.
C10_Witness ==
    /\ deck_no = total_decks
    /\ \E b \in DOMAIN usage_counts :
        /\ usage_counts[b] = 2
        /\ \E i, j \in 1..Len(decks_read) :
            /\ CopiesIn(decks_read[i], b) >= 2
            /\ CopiesIn(decks_read[j], b) = 1

(***************************************************************************)
(* The tag file: lines "<quantity> <card name> <tag> ...".                 *)
(***************************************************************************)
TagCore == <<"#", "1", "_", "c", "o", "r", "e">>

TagEssential == <<"#", "2", "_", "e", "s", "s", "e", "n", "t", "i", "a", "l">>

TagCommon == <<"#", "3", "_", "c", "o", "m", "m", "o", "n">>

TagHighSpice == <<"#", "4", "_", "h", "i", "g", "h", "_", "s", "p", "i", "c", "e">>

TagMediumSpice == <<"#", "5", "_", "m", "e", "d", "i", "u", "m", "_", "s", "p", "i", "c", "e">>

TagLowSpice == <<"#", "6", "_", "l", "o", "w", "_", "s", "p", "i", "c", "e">>

TagPotentialTraps == <<"#", "7", "_", "p", "o", "t", "e", "n", "t", "i", "a", "l", "_", "t", "r", "a", "p", "s">>

TagBadCards == <<"#", "8", "_", "b", "a", "d", "_", "c", "a", "r", "d", "s">>

Space == <<" ">>

LeadingNonSpaces(s) ==
    IF \E i \in 1..Len(s) : IsSpace(s[i])
    THEN (CHOOSE i \in 1..Len(s) : IsSpace(s[i]) /\ \A j \in 1..(i - 1) : ~IsSpace(s[j])) - 1
    ELSE Len(s)

\* str.split(): the runs of characters between whitespace
RECURSIVE Tokens(_)
Tokens(s) ==
    LET t == Drop(s, LeadingSpaces(s))
    IN  IF t = <<>> THEN <<>>
        ELSE <<Take(t, LeadingNonSpaces(t))>> \o Tokens(Drop(t, LeadingNonSpaces(t)))

\* ' '.join(parts)
RECURSIVE JoinSp(_)
JoinSp(parts) ==
    IF parts = <<>> THEN <<>>
    ELSE IF Len(parts) = 1 THEN parts[1]
    ELSE parts[1] \o Space \o JoinSp(Tail(parts))

SetMin(S) == CHOOSE x \in S : \A y \in S : x <= y

SetMax(S) == CHOOSE x \in S : \A y \in S : y <= x

\* the orders in which the elements of a finite set can be listed
Orderings(S) ==
    {p \in [1..Cardinality(S) -> S] : \A i, j \in 1..Cardinality(S) : i # j => p[i] # p[j]}

\* 5_winrate_based_analytics.py lines 216-240: the card name of a stripped,
\* non-blank line of the tag file
ParsedCardName(line) ==
    LET parts == Tokens(line)
        tag_indices == {i \in 1..Len(parts) : StartsWith(parts[i], Hash)}
        first_tag_index == IF tag_indices = {} THEN Len(parts) + 1 ELSE SetMin(tag_indices)
    IN  IF IsDigitStr(parts[1])
        THEN JoinSp(SubSeq(parts, 2, first_tag_index - 1))
        ELSE JoinSp(SubSeq(parts, 1, first_tag_index - 1))

\* the tags of a stripped, non-blank line: its tokens that begin with "#"
ParsedTags(line) ==
    {tok \in {Tokens(line)[i] : i \in 1..Len(Tokens(line))} : StartsWith(tok, Hash)}

(***************************************************************************)
(* 4_basic_decklist_analytics.py: analyze_card_usage, tagging and output.  *)
(***************************************************************************)
\* lines 36-63 over all deck files: the Counter card_counts
RECURSIVE UsageCountsFrom(_, _, _)
UsageCountsFrom(files, i, counts) ==
    IF i > Len(files) THEN counts
    ELSE UsageCountsFrom(files, i + 1,
            IF files[i].ok THEN CountDeckInto(counts, FileCards(files[i].cards))
            ELSE counts)

UsageCounts(files) == UsageCountsFrom(files, 1, <<>>)

\* lines 75-78: deck_card_counts[base_card] of one deck
DeckCardCount(cards, b) ==
    Cardinality({i \in 1..Len(cards) : StripDigits(cards[i]) = b})

\* lines 68-86: card_quantities, the largest count of the card in one deck
UsageQuantity(files, b) ==
    SetMax({DeckCardCount(FileCards(files[i].cards), b) :
                i \in {k \in 1..Len(files) : files[k].ok}})

\* Mutant of UsageTag: the tiers are cut at total, floor(total * 0.95) and
\* floor(total * 0.90).
UsageTagFloor(count, total) ==
    IF count >= total THEN TagCore
    ELSE IF count >= (total * 95) \div 100 THEN TagEssential
    ELSE IF count >= (total * 90) \div 100 THEN TagCommon
    ELSE <<>>

\* lines 91-99: the tag of a card counted in `count` of `total` decks, <<>>
\* for none.  usage_percent = (count / total) * 100 compared with 99, 95, 90
\* decides as the integer comparisons below do.
UsageTag(count, total) ==
    IF count * 100 >= 99 * total THEN TagCore
    ELSE IF count * 100 >= 95 * total THEN TagEssential
    ELSE IF count * 100 >= 90 * total THEN TagCommon
    ELSE <<>>

\* the first deck file that holds base card b: the position at which b enters
\* card_counts; within one deck the set base_cards is iterated in any order
FirstDeckWith(files, b) ==
    SetMin({i \in 1..Len(files) : files[i].ok /\ b \in BaseCards(FileCards(files[i].cards))})

\* line 107
UsageLine(files, b) ==
    IntToStr(UsageQuantity(files, b)) \o Space \o b \o Space
        \o UsageTag(UsageCounts(files)[b], Len(files))

\* lines 89-107: the contents analyze_card_usage can write.  The tagged cards
\* are listed by usage, highest first (line 102, a stable sort), cards of
\* equal usage in the order they entered card_counts.
UsageFiles(files) ==
    LET counts == UsageCounts(files)
        tagged == {b \in DOMAIN counts : UsageTag(counts[b], Len(files)) # <<>>}
        Before(x, y) ==
            \/ counts[x] > counts[y]
            \/ counts[x] = counts[y] /\ FirstDeckWith(files, x) <= FirstDeckWith(files, y)
    IN  { [i \in 1..Cardinality(tagged) |-> UsageLine(files, p[i])] :
            p \in {q \in Orderings(tagged) :
                    \A i, j \in 1..Cardinality(tagged) : i < j => Before(q[i], q[j])} }

(***************************************************************************)
(* analyze_card_usage, the second pass and the tagging, after the counting *)
(* pass above.                                                             *)
(***************************************************************************)
\* Mutant of QuantityInto: the count of the deck read last replaces the one kept.
QuantityIntoLast(quantities, cards) ==
    [b \in DOMAIN quantities \cup BaseCards(cards) |->
        IF b \in BaseCards(cards) THEN DeckCardCount(cards, b) ELSE quantities[b]]

\* lines 74-83: card_quantities after one deck, the larger count is kept
QuantityInto(quantities, cards) ==
    [b \in DOMAIN quantities \cup BaseCards(cards) |->
        IF /\ b \in BaseCards(cards)
           /\ (b \notin DOMAIN quantities \/ DeckCardCount(cards, b) > quantities[b])
        THEN DeckCardCount(cards, b)
        ELSE quantities[b]]

\* lines 69-86: one deck file of the second pass; a file that cannot be read
\* is reported and changes nothing
QuantityDeck ==
    /\ upc = "counting"
    /\ deck_no = total_decks
    /\ quantity_no < total_decks
    /\ LET deck == decks_read[quantity_no + 1]
       IN  card_quantities' = IF deck.ok
                              THEN QuantityInto(card_quantities, FileCards(deck.cards))
                              ELSE card_quantities
    /\ quantity_no' = quantity_no + 1
    /\ UNCHANGED <<total_decks, deck_no, usage_counts, decks_read, tagged_cards, upc>>
    /\ UNCHANGED <<normVars, tagVars, powerVars, runVars>>

\* lines 89-99: the entries of tagged_cards; their order in the list is that
\* of UsageFiles
TaggedEntries(counts, quantities, total) ==
    { [card |-> b,
       quantity |-> IF b \in DOMAIN quantities THEN quantities[b] ELSE 1,
       count |-> counts[b],
       tag |-> UsageTag(counts[b], total)] :
        b \in {c \in DOMAIN counts : UsageTag(counts[c], total) # <<>>} }

\* lines 88-99: the counted cards are tagged
TagCards ==
    /\ upc = "counting"
    /\ deck_no = total_decks
    /\ quantity_no = total_decks
    /\ tagged_cards' = TaggedEntries(usage_counts, card_quantities, total_decks)
    /\ upc' = "tagged"
    /\ UNCHANGED <<total_decks, deck_no, usage_counts, decks_read, quantity_no, card_quantities>>
    /\ UNCHANGED <<normVars, tagVars, powerVars, runVars>>

NextUsage == CountDeck \/ CountUnreadable \/ QuantityDeck \/ TagCards

SpecUsage == InitUsage /\ [][NextUsage]_vars

\* The tagging alone, for a corpus of up to MaxTotalDecks deck files of which
\* the two passes have left the count and the quantity of one card.
InitTagging ==
    /\ total_decks \in 1..MaxTotalDecks
    /\ \E count \in 1..total_decks : usage_counts = (CardA :> count)
    /\ card_quantities = (CardA :> 1)
    /\ deck_no = total_decks
    /\ quantity_no = total_decks
    /\ decks_read = <<>>
    /\ tagged_cards = {}
    /\ upc = "counting"
    /\ NormIdle
    /\ TagIdle
    /\ PowerIdle
    /\ RunIdle

NextTagging == TagCards

SpecTagging == InitTagging /\ [][NextTagging]_vars

\* the tags tagged_cards holds for a card
TagsGiven(b) == {e.tag : e \in {x \in tagged_cards : x.card = b}}

\* C11: a card has the core tag exactly when appearance_count >= total_decks,
\* that is when it is in every deck; a card missing from a deck is never core.
C11_CoreIffInEveryDeck ==
    upc = "tagged" =>
        \A b \in DOMAIN usage_counts :
            TagCore \in TagsGiven(b) <=> usage_counts[b] >= total_decks

\* C12 as stated: a card not in the core tier is essential exactly when
\* appearance_count >= floor(total_decks * 0.95), otherwise common exactly
\* when appearance_count >= floor(total_decks * 0.90); one tag at most.
C12_FloorThresholds ==
    upc = "tagged" =>
        \A b \in DOMAIN usage_counts :
            /\ Cardinality(TagsGiven(b)) <= 1
            /\ TagCore \notin TagsGiven(b) =>
                /\ TagEssential \in TagsGiven(b)
                        <=> usage_counts[b] >= (total_decks * 95) \div 100
                /\ TagEssential \notin TagsGiven(b) =>
                        (TagCommon \in TagsGiven(b)
                            <=> usage_counts[b] >= (total_decks * 90) \div 100)

\* C12 amended: a card not tagged core is essential exactly when it is in
\* at least 95% of the deck files (100 * appearance_count >= 95 *
\* total_decks, no floor), otherwise common exactly when it is in at least
\* 90% of them; one tag at most.
C12_PercentThresholds ==
    upc = "tagged" =>
        \A b \in DOMAIN usage_counts :
            /\ Cardinality(TagsGiven(b)) <= 1
            /\ TagCore \notin TagsGiven(b) =>
                /\ TagEssential \in TagsGiven(b)
                        <=> 100 * usage_counts[b] >= 95 * total_decks
                /\ TagEssential \notin TagsGiven(b) =>
                        (TagCommon \in TagsGiven(b)
                            <=> 100 * usage_counts[b] >= 90 * total_decks)

\* C12 witness: a card in 9 of 10 deck files, which floor(10 * 0.95) = 9
\* would make essential, has been tagged common.
C12_Witness ==
    /\ upc = "tagged"
    /\ total_decks = 10
    /\ \E e \in tagged_cards : e.count = 9 /\ e.tag = TagCommon

\* the copies of base card b in the readable deck files of the corpus
CopiesPerDeck(b) ==
    {CopiesIn(decks_read[i], b) : i \in {k \in 1..Len(decks_read) : decks_read[k].ok}}

\* C13: the quantity of a tagged card is the largest number of copies of
\* that base card in one deck of the corpus.
C13_QuantityIsMaximum ==
    (upc = "tagged" /\ decks_read # <<>>) =>
        \A e \in tagged_cards :
            /\ e.quantity \in CopiesPerDeck(e.card)
            /\ \A n \in CopiesPerDeck(e.card) : n <= e.quantity

\* C13 witness: a card that the deck read last runs once and an earlier
\* deck runs in several copies has been tagged with the larger quantity.
C13_Witness ==
    /\ upc = "tagged"
    /\ \E e \in tagged_cards :
        /\ e.quantity >= 2
        /\ CopiesIn(decks_read[Len(decks_read)], e.card) = 1

(***************************************************************************)
(* 5_winrate_based_analytics.py: main, the power aggregation.  Win rates,  *)
(* weights and powers are exact fractions [n, d] with d > 0.               *)
(***************************************************************************)
RECURSIVE GCD(_, _)
GCD(x, y) == IF y = 0 THEN x ELSE GCD(y, x % y)

\* the fraction n/d in lowest terms
Frac(n, d) ==
    LET g == GCD(IF n < 0 THEN -n ELSE n, d)
    IN  [n |-> n \div g, d |-> d \div g]

FracAdd(x, y) == Frac(x.n * y.d + y.n * x.d, x.d * y.d)

FracLess(x, y) == x.n * y.d < y.n * x.d

Sign(x) == IF x > 0 THEN 1 ELSE IF x < 0 THEN -1 ELSE 0

\* Mutant of power_law_weight: the sign of the shifted win rate is dropped.
power_law_weight_unsigned(win_rate) ==
    LET shifted == Frac(4 * win_rate.n - win_rate.d, 4 * win_rate.d)
    IN  Frac(shifted.n * shifted.n, shifted.d * shifted.d)

\* lines 8-19 with power = 2, center = 0.25 (lines 388-389):
\* np.sign(shifted) * np.abs(shifted) ** 2, shifted = win_rate - 1/4
power_law_weight(win_rate) ==
    LET shifted == Frac(4 * win_rate.n - win_rate.d, 4 * win_rate.d)
    IN  Frac(Sign(shifted.n) * shifted.n * shifted.n, shifted.d * shifted.d)

\* Mutant of WinRate: a draw counts as half a win.
WinRateHalfDraw(r, draws) ==
    LET total_games == r.wins + r.losses + (IF draws THEN r.draws ELSE 0)
    IN  IF total_games = 0 THEN Frac(1, 4)
        ELSE IF draws THEN Frac(2 * r.wins + r.draws, 2 * total_games)
        ELSE Frac(r.wins, total_games)

\* Mutant of WinRate: a deck without games has win rate 0.
WinRateNoGamesZero(r, draws) ==
    LET total_games == r.wins + r.losses + (IF draws THEN r.draws ELSE 0)
    IN  IF total_games = 0 THEN Frac(0, 1)
        ELSE IF draws THEN Frac(4 * r.wins + r.draws, 4 * total_games)
        ELSE Frac(r.wins, total_games)

\* lines 376-385: the win rate of one row; 0/0 is NaN and becomes 0.25
WinRate(r, draws) ==
    LET total_games == r.wins + r.losses + (IF draws THEN r.draws ELSE 0)
    IN  IF total_games = 0 THEN Frac(1, 4)
        ELSE IF draws THEN Frac(4 * r.wins + r.draws, 4 * total_games)
        ELSE Frac(r.wins, total_games)

\* lines 21-31: re.search(r'/([^/]+)$', url); <<>> stands for None
extract_deck_id(url) ==
    LET slashes == {i \in 1..Len(url) : url[i] = "/"}
    IN  IF slashes = {} \/ SetMax(slashes \cup {0}) = Len(url) THEN <<>>
        ELSE Drop(url, SetMax(slashes))

\* `sub in s`
Contains(s, sub) ==
    \E i \in 0..(Len(s) - Len(sub)) : SubSeq(s, i + 1, i + Len(sub)) = sub

\* lines 33-52: the index of the first listed file whose name contains the
\* deck id, 0 for None (directory missing or no such file)
find_decklist_file(dir, deck_id) ==
    IF ~dir.exists THEN 0
    ELSE LET hits == {i \in 1..Len(dir.files) : Contains(dir.files[i].name, deck_id)}
         IN  IF hits = {} THEN 0 ELSE SetMin(hits)

\* lines 54-64: the stripped non-blank lines, [] when the file cannot be read
read_decklist(file) == IF file.ok THEN FileCards(file.cards) ELSE <<>>

NoStat == [appearance_count |-> 0, power_law_sum |-> Frac(0, 1)]

StatOf(dict, card) == IF card \in DOMAIN dict THEN dict[card] ELSE NoStat

\* Mutant of AddDeck: the weight of the deck replaces the sum kept.
AddDeckLastWeight(dict, cards, weight) ==
    LET Lines(c) == Cardinality({i \in 1..Len(cards) : cards[i] = c})
    IN  [c \in DOMAIN dict \cup {cards[i] : i \in 1..Len(cards)} |->
            [appearance_count |-> StatOf(dict, c).appearance_count + Lines(c),
             power_law_sum |->
                IF Lines(c) = 0 THEN StatOf(dict, c).power_law_sum ELSE weight]]

\* lines 432-434: every line of the deck list adds one appearance and the
\* deck's weight to its card
AddDeck(dict, cards, weight) ==
    LET Lines(c) == Cardinality({i \in 1..Len(cards) : cards[i] = c})
    IN  [c \in DOMAIN dict \cup {cards[i] : i \in 1..Len(cards)} |->
            [appearance_count |-> StatOf(dict, c).appearance_count + Lines(c),
             power_law_sum |->
                IF Lines(c) = 0 THEN StatOf(dict, c).power_law_sum
                ELSE FracAdd(StatOf(dict, c).power_law_sum,
                             Frac(Lines(c) * weight.n, weight.d))]]

\* lines 408-439: card_dict after the rows from i on
RECURSIVE CardDictFrom(_, _, _, _)
CardDictFrom(csv, dir, i, dict) ==
    IF i > Len(csv.rows) THEN dict
    ELSE LET row == csv.rows[i]
             deck_id == extract_deck_id(row.url)
             at == find_decklist_file(dir, deck_id)
             cards == read_decklist(dir.files[at])
         IN  IF deck_id = <<>> \/ at = 0 THEN CardDictFrom(csv, dir, i + 1, dict)
             ELSE IF cards = <<>> THEN CardDictFrom(csv, dir, i + 1, dict)
             ELSE CardDictFrom(csv, dir, i + 1,
                    AddDeck(dict, cards, power_law_weight(WinRate(row, csv.has_draws))))

\* Mutant of AveragePower: the sum is not divided.
AveragePowerUndivided(stat) == stat.power_law_sum

\* line 452: power_law_sum / appearance_count
AveragePower(stat) ==
    Frac(stat.power_law_sum.n, stat.power_law_sum.d * stat.appearance_count)

\* lines 442, 452: card_df of a card_dict
WithAverage(dict) ==
    [c \in DOMAIN dict |->
        [appearance_count |-> dict[c].appearance_count,
         power_law_sum |-> dict[c].power_law_sum,
         average_power |-> AveragePower(dict[c])]]

\* lines 371-373, 403-452: card_df with average_power, <<>> when main
\* returns before building it (no URL column)
CardStats(csv, dir) ==
    IF ~csv.has_url THEN <<>>
    ELSE WithAverage(CardDictFrom(csv, dir, 1, <<>>))

(***************************************************************************)
(* 5_winrate_based_analytics.py: create_spice_tags, the tag assignment.    *)
(***************************************************************************)
SpiceHighBelow == 3

SpiceMediumUpTo == 10

BottomCap == 30

TrapCap == 20

Max2(x, y) == IF x >= y THEN x ELSE y

Min2(x, y) == IF x <= y THEN x ELSE y

\* the ranking with the numbered copies left in
RankedAll(card_df) == DOMAIN card_df

\* lines 86-96: the cards whose name does not end with a number
Ranked(card_df) == {c \in DOMAIN card_df : ~EndsWithDigit(c)}

\* lines 121, 125: max(1, int(len(sorted_df) * 0.2))
TwentyPercent(n) == Max2(1, n \div 5)

\* the bottom cut without `max(1, ...)`
BottomCutoffFifth(n) == Min2(n \div 5, Min2(BottomCap, n))

\* lines 126-127
BottomCutoff(n) == Min2(TwentyPercent(n), Min2(BottomCap, n))

\* lines 146-154
assign_spice_tag(appearances) ==
    IF appearances < SpiceHighBelow THEN TagHighSpice
    ELSE IF appearances <= SpiceMediumUpTo THEN TagMediumSpice
    ELSE TagLowSpice

\* lines 136-138, 170: appearance_count > 0.2 * (sum of appearances / cards)
HighAppearance(card_df) ==
    LET F == Ranked(card_df)
        RECURSIVE Sum(_)
        Sum(S) == IF S = {} THEN 0
                  ELSE LET c == CHOOSE x \in S : TRUE
                       IN  card_df[c].appearance_count + Sum(S \ {c})
    IN  {c \in F : 5 * Cardinality(F) * card_df[c].appearance_count > Sum(F)}

\* the sets of k cards of S that a sort by average_power can put last: no
\* card left out has a lower average_power than a card taken.  The sort
\* (sort_values, lines 118, 174) leaves the order of equal values open.
LowestSets(card_df, S, k) ==
    {B \in SUBSET S :
        /\ Cardinality(B) = k
        /\ \A b \in B : \A c \in S \ B :
            ~FracLess(card_df[c].average_power, card_df[b].average_power)}

HighestSets(card_df, S, k) ==
    {T \in SUBSET S :
        /\ Cardinality(T) = k
        /\ \A t \in T : \A c \in S \ T :
            ~FracLess(card_df[t].average_power, card_df[c].average_power)}

\* lines 117-195: the tag assignments one call can make: spice_tags for the
\* first top_20_percent_cutoff cards of sorted_df, "#7_potential_traps" for
\* the first potential_trap_count high-appearance cards in ascending order,
\* "#8_bad_cards" for the last bottom_cutoff cards of sorted_df not among them.
\* top_cards and bottom_cards are cut from the same sorted_df, so they share
\* exactly the positions that both cuts cover.
TagAssignments(card_df) ==
    LET F == Ranked(card_df)
        n == Cardinality(F)
        high == HighAppearance(card_df)
        shared == Max2(0, TwentyPercent(n) + BottomCutoff(n) - n)
        Bottoms(T) == {B \in LowestSets(card_df, F, BottomCutoff(n)) :
                            Cardinality(T \cap B) = shared}
    IN  UNION {
          { [spice |-> [c \in T |-> assign_spice_tag(card_df[c].appearance_count)],
             extra |-> [c \in P \cup B |->
                          IF c \in P THEN TagPotentialTraps ELSE TagBadCards]] :
              B \in Bottoms(T),
              P \in LowestSets(card_df, high, Min2(TrapCap, Cardinality(high))) } :
          T \in HighestSets(card_df, F, TwentyPercent(n)) }

\* lines 243-249, 268-272: the new tags of a card, the spice tag first
NewTags(card, tags) ==
    (IF card \in DOMAIN tags.spice THEN <<tags.spice[card]>> ELSE <<>>)
    \o (IF card \in DOMAIN tags.extra THEN <<tags.extra[card]>> ELSE <<>>)

\* lines 264-265: the cards this call tags
Tagged(tags) == DOMAIN tags.spice \cup DOMAIN tags.extra

\* Mutant of UpdatedLine: a line that gets new tags is written anew.
UpdatedLineRewritten(raw, tags) ==
    LET line == Strip(raw)
    IN  IF line = <<>> THEN line
        ELSE IF NewTags(ParsedCardName(line), tags) = <<>> THEN line
        ELSE <<"1">> \o Space \o ParsedCardName(line) \o Space
                \o JoinSp(NewTags(ParsedCardName(line), tags))

\* lines 209-261: an existing line as it is written back
UpdatedLine(raw, tags) ==
    LET line == Strip(raw)
    IN  IF line = <<>> THEN line
        ELSE IF NewTags(ParsedCardName(line), tags) = <<>> THEN line
        ELSE line \o Space \o JoinSp(NewTags(ParsedCardName(line), tags))

\* line 255: the set cards_found
CardsFound(lines, tags) ==
    {ParsedCardName(Strip(lines[i])) :
        i \in {k \in 1..Len(lines) :
                /\ Strip(lines[k]) # <<>>
                /\ NewTags(ParsedCardName(Strip(lines[k])), tags) # <<>>}}

\* lines 275, 292, 307
NewCardLine(card, tags) ==
    <<"1">> \o Space \o card \o Space \o JoinSp(NewTags(card, tags))

\* Mutant of MergedFiles: the new tags are appended to a line twice.
MergedFilesTwice(lines, tags) ==
    { [i \in 1..Len(lines) |-> UpdatedLine(UpdatedLine(lines[i], tags), tags)]
        \o [i \in 1..Len(p) |-> NewCardLine(p[i], tags)] :
        p \in Orderings(Tagged(tags) \ CardsFound(lines, tags)) }

\* lines 204-275: the contents the merge can write over an existing file;
\* the tagged cards not found are appended in the iteration order of a set
MergedFiles(lines, tags) ==
    { [i \in 1..Len(lines) |-> UpdatedLine(lines[i], tags)]
        \o [i \in 1..Len(p) |-> NewCardLine(p[i], tags)] :
        p \in Orderings(Tagged(tags) \ CardsFound(lines, tags)) }

\* lines 299-307: the contents written when the file does not exist
CreatedFiles(tags) ==
    { [i \in 1..Len(p) |-> NewCardLine(p[i], tags)] : p \in Orderings(Tagged(tags)) }

\* lines 285-292: the lines of the fallback file <output_file>.new
FallbackLines(tags) == {NewCardLine(c, tags) : c \in Tagged(tags)}

(***************************************************************************)
(* The inputs of stages 4 and 5 and the runs of the two stages.            *)
(***************************************************************************)
Win == [wins |-> 1, losses |-> 0, draws |-> 0]

Loss == [wins |-> 0, losses |-> 1, draws |-> 0]

\* the scraped decks: one deck seen with both results, one losing, one winning
EntryPool ==
    { [deck |-> DeckAB, result |-> Win], [deck |-> DeckAB, result |-> Loss],
      [deck |-> DeckAEE, result |-> Loss], [deck |-> DeckACD, result |-> Win] }

EntryLists == UNION {[1..n -> EntryPool] : n \in 0..MaxEntries}

\* the deck id of the i-th deck, the file 2_moxfield_scrape.py names after it
\* and the link the metadata table holds for it
DeckId(i) == <<"k", Digits[i + 1]>>

FileName(i) == <<"0", "0", Digits[i + 1], "_">> \o DeckId(i) \o <<".", "t", "x", "t">>

UrlOf(id) == <<"m", "/", "d", "e", "c", "k", "s", "/">> \o id

\* a link to a deck that has no file in the directory
StrayId(i) == <<"z", Digits[i + 1]>>

\* a tag file left by earlier work: a tagged line, a blank line, an indented
\* line with neither quantity nor tag
SampleFile ==
    << <<"1", " ", "a", " ", "#", "1", "_", "c", "o", "r", "e">>,
       <<>>,
       <<" ", "b">> >>

Scenarios == {"complete", "no_dir", "no_url_column", "no_match"}

\* the inputs of the two stages and the tag file before any run
TagWorld ==
    /\ scenario \in Scenarios
    /\ \E entries \in EntryLists :
        /\ processed_dir = [exists |-> scenario # "no_dir",
                  files |-> IF scenario = "no_dir" THEN <<>>
                            ELSE [i \in 1..Len(entries) |->
                                    [name |-> FileName(i), ok |-> TRUE,
                                     cards |-> entries[i].deck]]]
        /\ scrape_csv = [has_url |-> scenario # "no_url_column",
                  has_draws |-> TRUE,
                  rows |-> [i \in 1..Len(entries) |->
                              [url |-> UrlOf(IF scenario = "no_match" THEN StrayId(i)
                                             ELSE DeckId(i)),
                               wins |-> entries[i].result.wins,
                               losses |-> entries[i].result.losses,
                               draws |-> entries[i].result.draws]]]
    /\ start_file \in {NoFile, File(<<>>), File(SampleFile)}
    /\ tag_file = start_file
    /\ new_file = NoNewFile
    /\ pc = "idle"
    /\ pending = <<>>
    /\ run_tags = NoTags
    /\ runs = 0
    /\ last_run = NoRun
    /\ prev_run = NoRun
    /\ NormIdle
    /\ UsageIdle
    /\ PowerIdle

Init == TagWorld /\ RunIdle

\* a stage is started: the history moves on
Starts(kind, outcome, tags) ==
    /\ pc = "idle"
    /\ runs < (IF run_all_pc = "off" THEN MaxRuns ELSE 2 * MaxPasses)
    /\ runs' = runs + 1
    /\ prev_run' = last_run
    /\ last_run' = [kind |-> kind, outcome |-> outcome, before |-> tag_file,
                    tags |-> tags]

\* the running stage ends; after a failed write the session is followed no
\* further
Ends(outcome) ==
    /\ pc' = IF outcome = "ok" THEN "idle" ELSE "aborted"
    /\ last_run' = [last_run EXCEPT !.outcome = outcome]

\* Mutant of NoDeckFiles: the check of line 31 is missing.
NoDeckFilesUnchecked(d) == FALSE

\* 4_basic_decklist_analytics.py lines 28-33: glob finds no *.txt file
NoDeckFiles(d) == d.files = <<>>

\* 4: lines 23-33, analyze_card_usage returns without reaching the output
UsageReturnsEarly ==
    /\ ~processed_dir.exists \/ NoDeckFiles(processed_dir)
    /\ Starts("usage", "returned", NoTags)
    /\ UNCHANGED <<scenario, processed_dir, scrape_csv, tag_file, start_file, new_file, pc, pending, run_tags>>
    /\ UNCHANGED <<normVars, usageVars, powerVars, runVars>>

\* 4: lines 35-105, the tags are computed and open(output_file, 'w') has
\* created or emptied the tag file
UsageOpens ==
    /\ processed_dir.exists
    /\ ~NoDeckFiles(processed_dir)
    /\ Starts("usage", "running", NoTags)
    /\ pending' \in UsageFiles(processed_dir.files)
    /\ tag_file' = File(<<>>)
    /\ pc' = "usage_open"
    /\ UNCHANGED <<scenario, processed_dir, scrape_csv, start_file, new_file, run_tags>>
    /\ UNCHANGED <<normVars, usageVars, powerVars, runVars>>

\* 4: lines 106-107, every line is written and the file closed
UsageWrites ==
    /\ pc = "usage_open"
    /\ tag_file' = File(pending)
    /\ Ends("ok")
    /\ UNCHANGED <<scenario, processed_dir, scrape_csv, start_file, new_file, pending, run_tags, runs, prev_run>>
    /\ UNCHANGED <<normVars, usageVars, powerVars, runVars>>

\* 4: a write fails or the process is stopped after n lines reached the
\* file; nothing catches it
UsageWriteFails ==
    /\ pc = "usage_open"
    /\ \E n \in 0..(Len(pending) - 1) : tag_file' = File(Take(pending, n))
    /\ Ends("raised")
    /\ UNCHANGED <<scenario, processed_dir, scrape_csv, start_file, new_file, pending, run_tags, runs, prev_run>>
    /\ UNCHANGED <<normVars, usageVars, powerVars, runVars>>

\* 5: main returns at line 373 or 449, or create_spice_tags at line 84 or 103
PowerReturnsEarly ==
    /\ LET card_df == CardStats(scrape_csv, processed_dir)
       IN  DOMAIN card_df = {} \/ Ranked(card_df) = {}
    /\ Starts("power", "returned", NoTags)
    /\ UNCHANGED <<scenario, processed_dir, scrape_csv, tag_file, start_file, new_file, pc, pending, run_tags>>
    /\ UNCHANGED <<normVars, usageVars, powerVars, runVars>>

\* 5: lines 296-299, no tag file yet: open(output_file, 'w') has created it
PowerCreates ==
    /\ Ranked(CardStats(scrape_csv, processed_dir)) # {}
    /\ ~tag_file.exists
    /\ \E tags \in TagAssignments(CardStats(scrape_csv, processed_dir)) :
        /\ Starts("power", "running", tags)
        /\ run_tags' = tags
        /\ pending' \in CreatedFiles(tags)
    /\ tag_file' = File(<<>>)
    /\ pc' = "power_create"
    /\ UNCHANGED <<scenario, processed_dir, scrape_csv, start_file, new_file>>
    /\ UNCHANGED <<normVars, usageVars, powerVars, runVars>>

\* 5: lines 198-278, the tag file exists: it is read, merged in memory, and
\* open(output_file, 'w') has emptied it
PowerMerges ==
    /\ Ranked(CardStats(scrape_csv, processed_dir)) # {}
    /\ tag_file.exists
    /\ \E tags \in TagAssignments(CardStats(scrape_csv, processed_dir)) :
        /\ Starts("power", "running", tags)
        /\ run_tags' = tags
        /\ pending' \in MergedFiles(tag_file.lines, tags)
    /\ tag_file' = File(<<>>)
    /\ pc' = "power_merge"
    /\ UNCHANGED <<scenario, processed_dir, scrape_csv, start_file, new_file>>
    /\ UNCHANGED <<normVars, usageVars, powerVars, runVars>>

\* 5: lines 279-280 or 300-307, every line is written and the file closed
PowerWrites ==
    /\ pc \in {"power_create", "power_merge"}
    /\ tag_file' = File(pending)
    /\ Ends("ok")
    /\ UNCHANGED <<scenario, processed_dir, scrape_csv, start_file, new_file, pending, run_tags, runs, prev_run>>
    /\ UNCHANGED <<normVars, usageVars, powerVars, runVars>>

\* 5: lines 308-309, writing the new file fails after n lines: reported
PowerCreateFails ==
    /\ pc = "power_create"
    /\ \E n \in 0..(Len(pending) - 1) : tag_file' = File(Take(pending, n))
    /\ Ends("failed")
    /\ UNCHANGED <<scenario, processed_dir, scrape_csv, start_file, new_file, pending, run_tags, runs, prev_run>>
    /\ UNCHANGED <<normVars, usageVars, powerVars, runVars>>

\* 5: lines 281-293, rewriting the file fails after n lines: the tags of this
\* run go to the fallback file <output_file>.new
PowerMergeFails ==
    /\ pc = "power_merge"
    /\ \E n \in 0..(Len(pending) - 1) : tag_file' = File(Take(pending, n))
    /\ new_file' = [exists |-> TRUE, lines |-> FallbackLines(run_tags)]
    /\ Ends("failed")
    /\ UNCHANGED <<scenario, processed_dir, scrape_csv, start_file, pending, run_tags, runs, prev_run>>
    /\ UNCHANGED <<normVars, usageVars, powerVars, runVars>>

Next ==
    \/ UsageReturnsEarly
    \/ UsageOpens
    \/ UsageWrites
    \/ UsageWriteFails
    \/ PowerReturnsEarly
    \/ PowerCreates
    \/ PowerMerges
    \/ PowerWrites
    \/ PowerCreateFails
    \/ PowerMergeFails

Spec == Init /\ [][Next]_vars

(***************************************************************************)
(* Properties of the tag file under runs of the two writers.               *)
(***************************************************************************)
\* the non-blank lines of a tag file, stripped as the merge strips them
ContentLines(f) ==
    {Strip(f.lines[i]) : i \in {k \in 1..Len(f.lines) : Strip(f.lines[k]) # <<>>}}

\* the cards of a tag file and the tags a card carries in it
CardsOf(f) == {ParsedCardName(l) : l \in ContentLines(f)}

TagsOf(f, card) ==
    UNION {ParsedTags(l) : l \in {m \in ContentLines(f) : ParsedCardName(m) = card}}

\* the last two runs were power-tag merges that completed with the same tags
MergedTwice ==
    /\ pc = "idle"
    /\ last_run.kind = "power" /\ last_run.outcome = "ok"
    /\ prev_run.kind = "power" /\ prev_run.outcome = "ok"
    /\ last_run.tags = prev_run.tags

\* C1: a second run of the power-tag merge with the same card statistics
\* leaves the tag file exactly as the first run left it: no tag and no line
\* is added.
C1_MergeIdempotent == MergedTwice => tag_file = last_run.before

\* a run of either writer has completed
RunCompleted == pc = "idle" /\ last_run.outcome = "ok"

\* C2: every card in the tag file before a run is still in it after the
\* run and carries every tag it had before.
C2_NoCardOrTagLost ==
    RunCompleted =>
        \A card \in CardsOf(last_run.before) :
            /\ card \in CardsOf(tag_file)
            /\ TagsOf(last_run.before, card) \subseteq TagsOf(tag_file, card)

\* C3: starting from an absent or empty tag file, no card name is on more
\* than one line of the tag file after any sequence of completed runs.
C3_CardOnOneLine ==
    (start_file.lines = <<>> /\ pc = "idle") =>
        \A i, j \in 1..Len(tag_file.lines) :
            (/\ i # j
             /\ Strip(tag_file.lines[i]) # <<>>
             /\ Strip(tag_file.lines[j]) # <<>>)
            => ParsedCardName(Strip(tag_file.lines[i]))
                    # ParsedCardName(Strip(tag_file.lines[j]))

\* C4: at every point of a run, a failed or interrupted one included, the
\* tag file holds its complete content of before the run or the complete
\* newly computed content.
C4_AtomicRewrite ==
    (runs > 0 /\ last_run.outcome # "returned") =>
        tag_file = last_run.before \/ tag_file = File(pending)

\* the input of a stage is missing: no directory or no deck file, and for
\* the power stage also no URL column or no row matched to a card list
InputMissing(kind) ==
    \/ ~processed_dir.exists
    \/ processed_dir.files = <<>>
    \/ /\ kind = "power"
       /\ \/ ~scrape_csv.has_url
          \/ \A i \in 1..Len(scrape_csv.rows) :
                find_decklist_file(processed_dir,
                                   extract_deck_id(scrape_csv.rows[i].url)) = 0

\* C5: a run whose input is missing returns without raising and leaves
\* the tag file as it was: not created, not truncated, not rewritten.
C5_MissingInputLeavesFile ==
    (runs > 0 /\ InputMissing(last_run.kind)) =>
        /\ last_run.outcome = "returned"
        /\ pc = "idle"
        /\ tag_file = last_run.before

\* C5 witness: the power stage ran over a table with a URL column and a
\* directory with deck files, none of them the file of a row, while a tag
\* file with content was in place
C5_Witness ==
    /\ runs > 0
    /\ last_run.kind = "power"
    /\ scrape_csv.has_url
    /\ scrape_csv.rows # <<>>
    /\ processed_dir.files # <<>>
    /\ InputMissing("power")
    /\ tag_file.lines # <<>>

(***************************************************************************)
(* 5_winrate_based_analytics.py: main.  The columns win_rate and           *)
(* power_weight of one row (lines 375-391), and the loop over the rows     *)
(* that builds card_dict and card_df (lines 403-455).  A row is drawn when *)
(* it is consumed, with the card list find_decklist_file and read_decklist *)
(* give for it: <<>> when the deck has no file or no card.                 *)
(***************************************************************************)
Draw == [wins |-> 0, losses |-> 0, draws |-> 1]

NoGames == [wins |-> 0, losses |-> 0, draws |-> 0]

\* a table without a draws column has no draws
Results(pool) == {r \in pool : has_draws \/ r.draws = 0}

GameResults == Results([wins : 0..MaxGames, losses : 0..MaxGames, draws : 0..MaxGames])

RowResults == Results({Win, Loss, Draw, NoGames})

RowCards == {DeckAB, DeckAEE, <<>>}

\* total_games of a row (lines 376-378)
TotalGames(r) == r.wins + r.losses + (IF has_draws THEN r.draws ELSE 0)

\* lines 376-391: the row with its columns win_rate and power_weight
RowOf(result, cards) ==
    [wins |-> result.wins, losses |-> result.losses, draws |-> result.draws,
     cards |-> cards,
     win_rate |-> WinRate(result, has_draws),
     power_weight |-> power_law_weight(WinRate(result, has_draws))]

InitWeight ==
    /\ has_draws \in BOOLEAN
    /\ total_rows = 1
    /\ row_no = 0
    /\ cur_row = NoRow
    /\ card_dict = <<>>
    /\ processed_decks = 0
    /\ decks_done = <<>>
    /\ card_table = <<>>
    /\ ppc = "columns"
    /\ NormIdle
    /\ UsageIdle
    /\ TagIdle
    /\ RunIdle

\* lines 375-391: win_rate and power_weight of a row are computed
ComputeWeight ==
    /\ ppc = "columns"
    /\ \E result \in GameResults : cur_row' = RowOf(result, <<>>)
    /\ ppc' = "weighted"
    /\ UNCHANGED <<has_draws, total_rows, row_no, card_dict, processed_decks, decks_done,
                   card_table>>
    /\ UNCHANGED <<normVars, usageVars, tagVars, runVars>>

NextWeight == ComputeWeight

SpecWeight == InitWeight /\ [][NextWeight]_vars

InitPower ==
    /\ has_draws \in BOOLEAN
    /\ total_rows \in 0..MaxRows
    /\ row_no = 0
    /\ cur_row = NoRow
    /\ card_dict = <<>>
    /\ processed_decks = 0
    /\ decks_done = <<>>
    /\ card_table = <<>>
    /\ ppc = "loop"
    /\ NormIdle
    /\ UsageIdle
    /\ TagIdle
    /\ RunIdle

\* lines 408-439: one row of the loop
ProcessRow ==
    /\ ppc = "loop"
    /\ row_no < total_rows
    /\ \E result \in RowResults, cards \in RowCards :
        LET r == RowOf(result, cards)
        IN  /\ cur_row' = r
            /\ IF cards = <<>>
               THEN UNCHANGED <<card_dict, processed_decks, decks_done>>
               ELSE /\ card_dict' = AddDeck(card_dict, cards, r.power_weight)
                    /\ processed_decks' = processed_decks + 1
                    /\ decks_done' = Append(decks_done, r)
    /\ row_no' = row_no + 1
    /\ UNCHANGED <<has_draws, total_rows, card_table, ppc>>
    /\ UNCHANGED <<normVars, usageVars, tagVars, runVars>>

\* lines 444-449: no card was collected, main returns
ReturnEmpty ==
    /\ ppc = "loop"
    /\ row_no = total_rows
    /\ card_dict = <<>>
    /\ ppc' = "returned"
    /\ UNCHANGED <<has_draws, total_rows, row_no, cur_row, card_dict, processed_decks,
                   decks_done, card_table>>
    /\ UNCHANGED <<normVars, usageVars, tagVars, runVars>>

\* lines 442-455: card_df is built and average_power added
BuildResult ==
    /\ ppc = "loop"
    /\ row_no = total_rows
    /\ card_dict # <<>>
    /\ card_table' = WithAverage(card_dict)
    /\ ppc' = "built"
    /\ UNCHANGED <<has_draws, total_rows, row_no, cur_row, card_dict, processed_decks,
                   decks_done>>
    /\ UNCHANGED <<normVars, usageVars, tagVars, runVars>>

NextPower == ProcessRow \/ ReturnEmpty \/ BuildResult

SpecPower == InitPower /\ [][NextPower]_vars

(***************************************************************************)
(* Properties of the weights and of the power aggregation.                 *)
(***************************************************************************)
Quarter == [n |-> 1, d |-> 4]

\* C16: the weight is 0 at win rate 0.25, positive and strictly increasing
\* in the win rate above 0.25, negative and strictly more negative the
\* further the win rate is below 0.25.
C16_WeightSignAndOrder ==
    ppc = "weighted" =>
        /\ cur_row.win_rate = Quarter => cur_row.power_weight.n = 0
        /\ FracLess(Quarter, cur_row.win_rate) => cur_row.power_weight.n > 0
        /\ FracLess(cur_row.win_rate, Quarter) => cur_row.power_weight.n < 0
        /\ \A other \in GameResults :
            LET rate == WinRate(other, has_draws)
                weight == power_law_weight(rate)
            IN  /\ (FracLess(Quarter, cur_row.win_rate) /\ FracLess(cur_row.win_rate, rate))
                        => FracLess(cur_row.power_weight, weight)
                /\ (FracLess(rate, cur_row.win_rate) /\ FracLess(cur_row.win_rate, Quarter))
                        => FracLess(weight, cur_row.power_weight)

\* C16 witness: a row with a win rate strictly between 0 and 0.25 has been
\* given a negative weight.
C16_Witness ==
    /\ ppc = "weighted"
    /\ cur_row.win_rate.n > 0
    /\ FracLess(cur_row.win_rate, Quarter)
    /\ cur_row.power_weight.n < 0

\* C17: with total_games > 0 the win rate is (wins + 0.25 * draws) /
\* total_games when the table has a draws column and wins / total_games
\* when it has none.
C17_WinRateFormula ==
    (ppc = "weighted" /\ TotalGames(cur_row) > 0) =>
        IF has_draws
        THEN cur_row.win_rate.n * 4 * (cur_row.wins + cur_row.losses + cur_row.draws)
                = (4 * cur_row.wins + cur_row.draws) * cur_row.win_rate.d
        ELSE cur_row.win_rate.n * (cur_row.wins + cur_row.losses)
                = cur_row.wins * cur_row.win_rate.d

\* C17 witness: the win rate of a row with wins, losses and draws has been
\* computed from a table with a draws column.
C17_Witness ==
    /\ ppc = "weighted"
    /\ has_draws
    /\ cur_row.wins > 0 /\ cur_row.losses > 0 /\ cur_row.draws > 0

\* the aggregated decks that hold base card b, by position
DecksHolding(b) ==
    {i \in 1..Len(decks_done) : b \in BaseCards(decks_done[i].cards)}

\* the sum of the weights of the decks at the positions S
RECURSIVE WeightSum(_)
WeightSum(S) ==
    IF S = {} THEN [n |-> 0, d |-> 1]
    ELSE LET i == CHOOSE x \in S : TRUE
         IN  FracAdd(decks_done[i].power_weight, WeightSum(S \ {i}))

\* the base cards of the aggregated decks
BasesDone == UNION {BaseCards(decks_done[i].cards) : i \in 1..Len(decks_done)}

\* C14: every base card has one event per deck that holds it, however many
\* lines or numbered copies the deck has: the result is keyed by base card,
\* appearance_count is the number of decks holding the card, power_sum the
\* sum of their weights, and no count exceeds the number of processed decks.
C14_OneEventPerDeck ==
    ppc = "built" =>
        /\ DOMAIN card_table = BasesDone
        /\ \A b \in DOMAIN card_table :
            /\ card_table[b].appearance_count = Cardinality(DecksHolding(b))
            /\ card_table[b].power_law_sum = WeightSum(DecksHolding(b))
            /\ card_table[b].appearance_count <= processed_decks

\* the card lines of the aggregated decks
LinesDone ==
    UNION {{decks_done[i].cards[k] : k \in 1..Len(decks_done[i].cards)} :
            i \in 1..Len(decks_done)}

\* C15: every card of the result has appearance_count > 0 and
\* average_power = power_sum / appearance_count, and is a card of a
\* processed deck.
C15_AverageOfSum ==
    ppc = "built" =>
        \A c \in DOMAIN card_table :
            /\ card_table[c].appearance_count > 0
            /\ card_table[c].average_power.n * card_table[c].power_law_sum.d
                    * card_table[c].appearance_count
                = card_table[c].power_law_sum.n * card_table[c].average_power.d
            /\ c \in LinesDone

\* C15 witness: a card of two processed decks with a power_sum other than 0
\* is in the result.
C15_Witness ==
    /\ ppc = "built"
    /\ \E c \in DOMAIN card_table :
        /\ card_table[c].appearance_count = 2
        /\ card_table[c].power_law_sum.n # 0

\* card_dict after the aggregated decks taken in the order p
RECURSIVE AggregateFrom(_, _, _)
AggregateFrom(p, i, dict) ==
    IF i > Len(p) THEN dict
    ELSE AggregateFrom(p, i + 1,
            AddDeck(dict, decks_done[p[i]].cards, decks_done[p[i]].power_weight))

ZeroGamesRow == row_no' = row_no + 1 /\ TotalGames(cur_row') = 0

\* C19: a deck without games gets win rate 0.25 and weight 0, changes no
\* card's power_sum, and the loop goes on to the other decks.
C19_ZeroGamesNeutral ==
    [][ZeroGamesRow =>
            /\ cur_row'.win_rate = Quarter
            /\ cur_row'.power_weight.n = 0
            /\ \A c \in DOMAIN card_dict' :
                StatOf(card_dict', c).power_law_sum = StatOf(card_dict, c).power_law_sum
            /\ \A c \in DOMAIN card_dict : c \in DOMAIN card_dict'
            /\ ppc' = "loop"]_vars

\* C19 witness: a deck without games, with a card list, has been consumed
\* after a deck whose weight is not 0.
C19_Witness ==
    /\ ppc = "loop"
    /\ row_no > 1
    /\ TotalGames(cur_row) = 0
    /\ cur_row.cards # <<>>
    /\ \E c \in DOMAIN card_dict : card_dict[c].power_law_sum.n # 0

\* C20: a deck without games is excluded: it changes neither
\* appearance_count nor power_sum of any card.
C20_ZeroGamesExcluded == [][ZeroGamesRow => card_dict' = card_dict]_vars

(***************************************************************************)
(* 5_winrate_based_analytics.py: create_spice_tags, the tag assignment     *)
(* alone (lines 80-195), for a card_df as main can build it: every card    *)
(* with its appearance_count and its average_power, the average of the     *)
(* weights of the decks that hold it.                                      *)
(***************************************************************************)
CardE1 == <<"e", "1">>

\* the cards of card_df; one is a numbered copy
SpiceNames == {CardA, CardB, CardE}

\* appearance counts: a lone one, and both sides of the spice limits 3 and 10
AppearPool == {1, 2, SpiceHighBelow, SpiceMediumUpTo, SpiceMediumUpTo + 1}

\* weights of decks that lost, drew and won every game
PowerPool == {power_law_weight(WinRate(r, TRUE)) : r \in {Loss, Draw, Win}}

\* number of decks behind the statistics
DeckCounts == {SpiceMediumUpTo + 1, 2 * SpiceMediumUpTo}

StatOfCard(count, average) ==
    [appearance_count |-> count,
     power_law_sum |-> Frac(average.n * count, average.d),
     average_power |-> average]

\* seven more cards, one per win rate 0/8 .. 6/8 of the only deck group that holds it
FillerRates ==
    [c \in {<<"f", x>> : x \in {"a", "b", "c", "d", "e", "f", "g"}} |->
        CHOOSE k \in 0..6 : c[2] = <<"a", "b", "c", "d", "e", "f", "g">>[k + 1]]

Fillers ==
    [c \in DOMAIN FillerRates |->
        StatOfCard(SpiceMediumUpTo, power_law_weight(Frac(FillerRates[c], 8)))]

\* the numbered copy, when present, has the highest average_power
NumberedCopy == [c \in {CardE1} |-> StatOfCard(SpiceHighBelow, power_law_weight(Frac(1, 1)))]

StatTables ==
    UNION { { [c \in DOMAIN t \cup DOMAIN f |-> IF c \in DOMAIN t THEN t[c] ELSE f[c]] :
                t \in [S -> {StatOfCard(k, w) : k \in AppearPool, w \in PowerPool}],
                f \in {<<>>, Fillers, NumberedCopy,
                       [c \in DOMAIN Fillers \cup {CardE1} |->
                           IF c = CardE1 THEN NumberedCopy[c] ELSE Fillers[c]]} } :
            S \in SUBSET SpiceNames }

InitSpice ==
    /\ has_draws = TRUE
    /\ processed_decks \in DeckCounts
    /\ total_rows = processed_decks
    /\ row_no = total_rows
    /\ cur_row = NoRow
    /\ card_table \in StatTables
    /\ card_dict = [c \in DOMAIN card_table |->
                        [appearance_count |-> card_table[c].appearance_count,
                         power_law_sum |-> card_table[c].power_law_sum]]
    /\ decks_done = <<>>
    /\ ppc = "built"
    /\ NormIdle
    /\ UsageIdle
    /\ TagIdle
    /\ RunIdle

\* lines 80-103: no card, or none left without the numbered copies
SpiceReturnsEmpty ==
    /\ ppc = "built"
    /\ Ranked(card_table) = {}
    /\ ppc' = "returned"
    /\ UNCHANGED <<has_draws, total_rows, row_no, cur_row, card_dict, processed_decks,
                   decks_done, card_table>>
    /\ UNCHANGED <<normVars, usageVars, tagVars, runVars>>

\* lines 105-195: spice_tags and additional_tags are computed
AssignTags ==
    /\ ppc = "built"
    /\ Ranked(card_table) # {}
    /\ run_tags' \in TagAssignments(card_table)
    /\ ppc' = "tagged"
    /\ UNCHANGED <<has_draws, total_rows, row_no, cur_row, card_dict, processed_decks,
                   decks_done, card_table>>
    /\ UNCHANGED <<scenario, processed_dir, scrape_csv, tag_file, start_file, new_file, pc,
                   pending, runs, last_run, prev_run>>
    /\ UNCHANGED <<normVars, usageVars, runVars>>

NextSpice == SpiceReturnsEmpty \/ AssignTags

SpecSpice == InitSpice /\ [][NextSpice]_vars

(***************************************************************************)
(* Properties of the tag assignment of create_spice_tags.                  *)
(***************************************************************************)
SpiceTagged == DOMAIN run_tags.spice

TrapsTagged == {c \in DOMAIN run_tags.extra : run_tags.extra[c] = TagPotentialTraps}

BadTagged == {c \in DOMAIN run_tags.extra : run_tags.extra[c] = TagBadCards}

\* the cards without a digit at the end of the name
Unnumbered == {c \in DOMAIN card_table : ~IsDigit(c[Len(c)])}

\* S holds k cards of pool, none with a higher average_power than a card left out
LowestOf(S, pool, k) ==
    /\ S \subseteq pool
    /\ Cardinality(S) = k
    /\ \A t \in S : \A c \in pool \ S :
           ~FracLess(card_table[c].average_power, card_table[t].average_power)

\* S holds k cards of pool, none with a lower average_power than a card left out
HighestOf(S, pool, k) ==
    /\ S \subseteq pool
    /\ Cardinality(S) = k
    /\ \A t \in S : \A c \in pool \ S :
           ~FracLess(card_table[t].average_power, card_table[c].average_power)

\* the cards held by more than 20% of the processed decks
InFifthOfDecks == {c \in Unnumbered : 5 * card_table[c].appearance_count > processed_decks}

\* C21: a card is tagged potential_traps only if more than 20% of the
\* processed decks hold it, and the tagged cards are the (at most) 20 of
\* those cards with the lowest average_power.
C21_TrapsAboveFifthOfDecks ==
    ppc = "tagged" =>
        LowestOf(TrapsTagged, InFifthOfDecks, Min2(20, Cardinality(InFifthOfDecks)))

\* the tag assign_spice_tag gives for an appearance_count
SpiceTier(count) ==
    IF count < 3 THEN TagHighSpice
    ELSE IF count <= 10 THEN TagMediumSpice
    ELSE TagLowSpice

\* C22 (as the code has it): the cards with a spice tag are the
\* max(1, floor(20% of n)) cards with the highest average_power among the n
\* cards whose name does not end in a digit; each has the one spice tag of
\* its appearance_count (high below 3, medium from 3 to 10, low above 10);
\* a card whose name ends in a digit gets no tag at all.
C22_SpiceTopByPower ==
    ppc = "tagged" =>
        /\ HighestOf(SpiceTagged, Unnumbered, Max2(1, Cardinality(Unnumbered) \div 5))
        /\ \A c \in SpiceTagged :
               run_tags.spice[c] = SpiceTier(card_table[c].appearance_count)
        /\ (DOMAIN run_tags.spice \cup DOMAIN run_tags.extra) \subseteq Unnumbered

\* C22 witness: ten ranked cards and a numbered copy; two cards have a spice
\* tag, one of them medium_spice.
C22_Witness ==
    /\ ppc = "tagged"
    /\ CardE1 \in DOMAIN card_table
    /\ Cardinality(Unnumbered) = 10
    /\ Cardinality(SpiceTagged) = 2
    /\ \E c \in SpiceTagged : run_tags.spice[c] = TagMediumSpice

\* C22 as stated: the cards with a spice tag are within the top 20% of the
\* ranking (at most a fifth of the ranked cards), with the tag of their
\* appearance_count, and no numbered card is tagged.
C22_SpiceTopFifth ==
    ppc = "tagged" =>
        /\ HighestOf(SpiceTagged, Unnumbered, Cardinality(SpiceTagged))
        /\ 5 * Cardinality(SpiceTagged) <= Cardinality(Unnumbered)
        /\ \A c \in SpiceTagged :
               run_tags.spice[c] = SpiceTier(card_table[c].appearance_count)
        /\ (DOMAIN run_tags.spice \cup DOMAIN run_tags.extra) \subseteq Unnumbered

\* the bottom cut of the code for n ranked cards
BottomCount(n) == Min2(Max2(1, n \div 5), Min2(30, n))

C29_StrongAndWeakDisjoint ==
    ppc = "tagged" => SpiceTagged \cap (TrapsTagged \cup BadTagged) = {}

\* C30: the statistics determine the tags: every assignment the run can
\* make over the same card_df, whatever the order of its rows, is the one
\* it made.
C30_TagsDeterminedByStatistics ==
    ppc = "tagged" => \A t \in TagAssignments(card_table) : t = run_tags

(***************************************************************************)
(* Properties of the lines the two writers put into the tag file.          *)
(***************************************************************************)
\* the cards whose lines the last run wrote: the cards analyze_card_usage
\* tagged, or the cards create_spice_tags tagged
WrittenCards ==
    IF last_run.kind = "usage"
    THEN {b \in DOMAIN UsageCounts(processed_dir.files) :
            UsageTag(UsageCounts(processed_dir.files)[b], Len(processed_dir.files)) # <<>>}
    ELSE Tagged(last_run.tags)

\* C27: the parse of the merger recovers, from the lines a completed run of
\* either writer left in the tag file, exactly the card names the run wrote,
\* so every card written is recognised as present.
C27_WrittenNameParsesBack ==
    RunCompleted => WrittenCards \subseteq CardsOf(tag_file)

\* the last run was a run of create_spice_tags that wrote the tag file
PowerCompleted == RunCompleted /\ last_run.kind = "power"

\* C24: after a run of create_spice_tags the cards of the tag file are the
\* cards it held before plus the cards tagged in the run; a tagged card
\* that was in the file has its new tags on its line, and each tagged card
\* that was not adds exactly one line "1 <card_name> <tags...>".
C24_CardsAreOldPlusTagged ==
    PowerCompleted =>
        /\ CardsOf(tag_file) = CardsOf(last_run.before) \cup Tagged(last_run.tags)
        /\ Len(tag_file.lines)
             = Len(last_run.before.lines)
                 + Cardinality(Tagged(last_run.tags) \ CardsOf(last_run.before))
        /\ \A c \in Tagged(last_run.tags) :
               /\ {NewTags(c, last_run.tags)[i] :
                      i \in 1..Len(NewTags(c, last_run.tags))} \subseteq TagsOf(tag_file, c)
               /\ c \notin CardsOf(last_run.before) =>
                      \E i \in 1..Len(tag_file.lines) :
                          tag_file.lines[i] = <<"1", " ">> \o c \o <<" ">>
                                                \o JoinSp(NewTags(c, last_run.tags))

\* the last run was a merge of create_spice_tags into an existing tag file
MergeCompleted == PowerCompleted /\ last_run.before.exists

\* the line gets no new tag in the last run: it is blank or its card is not
\* among the cards tagged
GetsNoTag(line) ==
    \/ Strip(line) = <<>>
    \/ ParsedCardName(Strip(line)) \notin Tagged(last_run.tags)

scripts ==
    <<"1_edh16_scrape.py", "2_moxfield_scrape.py", "3_deck_preprocessing.py",
      "4_basic_decklist_analytics.py", "5_winrate_based_analytics.py">>

InitRunAll ==
    /\ TagWorld
    /\ run_all_pc = "ready"
    /\ script_no = 0
    /\ running = {}
    /\ exits = <<>>
    /\ runs_at_start = 0
    /\ passes = 0
    /\ first_pass_file = NoFile

\* Mutant of CheckRaises: subprocess.run without check=True.
CheckRaisesNever(returncode) == FALSE

\* line 16, check=True: CalledProcessError on a non-zero return code
CheckRaises(returncode) == returncode # 0

\* `python run_all.py`
StartRunAll ==
    /\ run_all_pc \in {"ready", "done"}
    /\ passes < MaxPasses
    /\ passes' = passes + 1
    /\ run_all_pc' = "looping"
    /\ script_no' = 0
    /\ exits' = <<>>
    /\ UNCHANGED <<running, runs_at_start, first_pass_file>>
    /\ UNCHANGED <<normVars, usageVars, tagVars, powerVars>>

\* lines 15-16: the loop takes the next script and subprocess.run starts it
StartScript ==
    /\ run_all_pc = "looping"
    /\ running = {}
    /\ script_no < Len(scripts)
    /\ script_no' = script_no + 1
    /\ running' = {scripts[script_no + 1]}
    /\ runs_at_start' = runs
    /\ UNCHANGED <<run_all_pc, exits, passes, first_pass_file>>
    /\ UNCHANGED <<normVars, usageVars, tagVars, powerVars>>

\* line 16: subprocess.run returns when the script has exited; a return code
\* that is not 0 raises out of the loop, the end of the list ends run_all
ScriptExited(returncode) ==
    /\ running' = {}
    /\ exits' = Append(exits, returncode)
    /\ run_all_pc' = IF CheckRaises(returncode) THEN "raised"
                     ELSE IF script_no = Len(scripts) THEN "done"
                     ELSE "looping"
    /\ first_pass_file' = IF passes = 1 /\ script_no = Len(scripts) /\ returncode = 0
                          THEN tag_file ELSE first_pass_file
    /\ UNCHANGED <<script_no, runs_at_start, passes>>
    /\ UNCHANGED <<normVars, usageVars, tagVars, powerVars>>

\* scripts 1 to 3 exit, with success or with a failure
ScrapeExits ==
    /\ running # {}
    /\ script_no \in 1..3
    /\ \E returncode \in {0, 1} : ScriptExited(returncode)

\* script 4 or 5 has not yet reached the tag file
StageToRun(n) ==
    /\ running = {scripts[n]}
    /\ runs = runs_at_start

\* script 4 or 5 has ended its run
StageRan(n) ==
    /\ running = {scripts[n]}
    /\ runs = runs_at_start + 1
    /\ pc \in {"idle", "aborted"}

\* script 4: analyze_card_usage
UsageScript ==
    \/ StageToRun(4) /\ UsageReturnsEarly
    \/ StageToRun(4) /\ UsageOpens
    \/ running = {scripts[4]} /\ UsageWrites
    \/ running = {scripts[4]} /\ UsageWriteFails

\* script 4 exits: an exception nothing catches gives return code 1
UsageScriptExits ==
    /\ StageRan(4)
    /\ ScriptExited(IF last_run.outcome = "raised" THEN 1 ELSE 0)

\* the corpus and the order of its decks are as in the run before, and so
\* are the rows of card_df and the result of its sorts
SameTagsAsBefore == run_tags = NoTags \/ run_tags' = run_tags

\* script 5: main and create_spice_tags.  The tag file exists when a card is
\* tagged: script 4 has written it from the same deck files.
PowerScript ==
    \/ StageToRun(5) /\ PowerReturnsEarly
    \/ StageToRun(5) /\ PowerMerges /\ SameTagsAsBefore
    \/ running = {scripts[5]} /\ PowerWrites
    \/ running = {scripts[5]} /\ PowerMergeFails

\* script 5 exits: main and create_spice_tags catch and report every error
PowerScriptExits ==
    /\ StageRan(5)
    /\ ScriptExited(0)

NextRunAll ==
    \/ StartRunAll
    \/ StartScript
    \/ ScrapeExits
    \/ UsageScript
    \/ UsageScriptExits
    \/ PowerScript
    \/ PowerScriptExits

SpecRunAll == InitRunAll /\ [][NextRunAll]_vars

(***************************************************************************)
(* Properties of run_all.                                                  *)
(***************************************************************************)
\* C26: run_all starts the scripts in the order of the list, starts a
\* script only when no script is running (the one before has exited), and
\* starts none after a script has exited with a return code other than 0.
C26_StagesInOrder ==
    /\ [](Cardinality(running) <= 1)
    /\ [][(running' # running /\ running' # {}) =>
            /\ running = {}
            /\ Len(exits) < Len(scripts)
            /\ running' = {scripts[Len(exits) + 1]}
            /\ \A i \in 1..Len(exits) : exits[i] = 0]_vars

\* C26 witness: script 4 raised out of a write and exited with return code
\* 1; run_all has ended without starting script 5.
C26_Witness ==
    /\ run_all_pc = "raised"
    /\ exits = <<0, 0, 0, 1>>
    /\ running = {}
    /\ last_run.kind = "usage"
    /\ last_run.outcome = "raised"

\* each tag of the line is on it once
TagsOnce(line) ==
    Cardinality(ParsedTags(line))
        = Cardinality({i \in 1..Len(Tokens(line)) : StartsWith(Tokens(line)[i], Hash)})

\* run_all has ended a second or later pass without failure
LaterPassDone == run_all_pc = "done" /\ passes >= 2 /\ pc = "idle"

\* C28: after every pass of the pipeline after the first, over the same
\* corpus, the tag file holds the lines the first pass left, whatever their
\* order: every card has the same quantity and the same tags, each tag
\* once.
C28_LaterPassesChangeNothing ==
    LaterPassDone =>
        /\ ContentLines(tag_file) = ContentLines(first_pass_file)
        /\ Len(tag_file.lines) = Len(first_pass_file.lines)
        /\ \A l \in ContentLines(tag_file) : TagsOnce(l)

\* C28 witness: the second pass has ended; a card of the file has a tag of
\* analyze_card_usage and tags of create_spice_tags on its line.
C28_Witness ==
    /\ LaterPassDone
    /\ last_run.kind = "power"
    /\ last_run.outcome = "ok"
    /\ \E l \in ContentLines(tag_file) :
           TagCore \in ParsedTags(l) /\ Cardinality(ParsedTags(l)) >= 3

====
